---- MODULE Spec2Model ----
(***************************************************************************)
(* A model of the point quadtree of Kangaroux/go-quadtree (quadtree.go,    *)
(* the revision with a maxDepth budget: NewQuadTree(bounds, bucketSize,    *)
(* maxDepth), InBounds, Insert, Select).                                   *)
(*                                                                         *)
(* A tree node is a record with the five fields of qTree.  A nil slice and *)
(* an empty slice are both the empty sequence <<>>: the code only ever     *)
(* tests children against nil and elements by len.                         *)
(*                                                                         *)
(* A Go panic that nothing recovers ends the program: state = "panicked"   *)
(* is terminal, and tree then holds whatever the unwinding left behind.    *)
(*                                                                         *)
(* Coordinates are small, so min.Add(max) never wraps around.              *)
(***************************************************************************)
EXTENDS Integers, Sequences, FiniteSets, TLC

\* ------------------------------------------------------------------ bounds
\* Largest coordinate of a corner or a point; the smallest is -1.
MaxCoord == 1
\* Largest bucketSize handed to NewQuadTree (the smallest tried is 0).
MaxBucket == 1
\* Largest maxDepth handed to NewQuadTree (the smallest tried is -1).
MaxDepthArg == 2
\* Number of entries one tree is given: Insert calls that return true.
MaxInserts == 2

Coord == -1..MaxCoord
\* Points handed to Insert.
Points == [X : Coord, Y : Coord]
\* Every point within one unit of the grid.
ProbePoints == [X : -2..(MaxCoord + 1), Y : -2..(MaxCoord + 1)]
\* Rectangles as a caller may write them: any two corners, in any order.
Rects == [Min : Points, Max : Points]

\* ------------------------------------------------- package image (stdlib)
Pt(x, y) == [X |-> x, Y |-> y]

\* Point.Add
Add(p, q) == Pt(p.X + q.X, p.Y + q.Y)

\* Go's integer division truncates toward zero.
GoDiv(a, b) == IF a >= 0 THEN a \div b ELSE -((-a) \div b)

\* Point.Div
Div(p, k) == Pt(GoDiv(p.X, k), GoDiv(p.Y, k))

\* In with the maximum corner taken as inclusive.
InClosedMax(p, r) ==
    /\ r.Min.X <= p.X /\ p.X <= r.Max.X
    /\ r.Min.Y <= p.Y /\ p.Y <= r.Max.Y

\* Point.In: r.Min.X <= p.X && p.X < r.Max.X && r.Min.Y <= p.Y && p.Y < r.Max.Y
In(p, r) ==
    /\ r.Min.X <= p.X /\ p.X < r.Max.X
    /\ r.Min.Y <= p.Y /\ p.Y < r.Max.Y

\* Rectangle.Canon: swaps the coordinates of an axis given in reverse order.
Canon(r) ==
    LET xs == r.Max.X < r.Min.X
        ys == r.Max.Y < r.Min.Y
    IN  [Min |-> Pt(IF xs THEN r.Max.X ELSE r.Min.X, IF ys THEN r.Max.Y ELSE r.Min.Y),
         Max |-> Pt(IF xs THEN r.Min.X ELSE r.Max.X, IF ys THEN r.Min.Y ELSE r.Max.Y)]

\* Rectangle.Empty
Empty(r) == r.Min.X >= r.Max.X \/ r.Min.Y >= r.Max.Y

\* Overlaps that asks for s to lie inside r.
OverlapsInside(r, s) ==
    /\ ~Empty(r) /\ ~Empty(s)
    /\ r.Min.X <= s.Min.X /\ s.Max.X <= r.Max.X
    /\ r.Min.Y <= s.Min.Y /\ s.Max.Y <= r.Max.Y

\* Overlaps that puts the corners of s in order first.
OverlapsCanon(r, s) ==
    LET c == Canon(s)
    IN  /\ ~Empty(r) /\ ~Empty(c)
        /\ r.Min.X < c.Max.X /\ c.Min.X < r.Max.X
        /\ r.Min.Y < c.Max.Y /\ c.Min.Y < r.Max.Y

\* Rectangle.Overlaps
Overlaps(r, s) ==
    /\ ~Empty(r) /\ ~Empty(s)
    /\ r.Min.X < s.Max.X /\ s.Min.X < r.Max.X
    /\ r.Min.Y < s.Max.Y /\ s.Min.Y < r.Max.Y

\* ------------------------------------------------------------ constructor
\* The panics of newQuadTree with the emptiness test made before Canon.
newQuadTreePanicsNoCanon(bounds, bucketSize, maxDepth) ==
    \/ bucketSize < 1
    \/ maxDepth < 0
    \/ Empty(bounds)

\* The three panics of newQuadTree.
newQuadTreePanics(bounds, bucketSize, maxDepth) ==
    \/ bucketSize < 1
    \/ maxDepth < 0
    \/ Empty(Canon(bounds))

\* The node newQuadTree returns when it does not panic.
newQuadTree(bounds, bucketSize, maxDepth) ==
    [bucketSize     |-> bucketSize,
     children       |-> <<>>,
     depthRemaining |-> maxDepth,
     elements       |-> <<>>,
     bounds         |-> Canon(bounds)]

\* qTree.Bounds
Bounds(t) == t.bounds

\* InBounds with the minimum corner left out.
InBoundsOpenMin(t, p) ==
    /\ t.bounds.Min.X < p.X /\ p.X < t.bounds.Max.X
    /\ t.bounds.Min.Y < p.Y /\ p.Y < t.bounds.Max.Y

\* qTree.InBounds
InBounds(t, p) == In(p, t.bounds)

\* ---------------------------------------------------------------- Select
\* Select keeping, in each leaf it reaches, only the elements inside rect.
RECURSIVE SelectInside(_, _)
SelectInside(t, rect) ==
    IF ~Overlaps(t.bounds, rect) THEN <<>>
    ELSE IF t.children = <<>> THEN SelectSeq(t.elements, LAMBDA e : In(e.p, rect))
    ELSE SelectInside(t.children[1], rect) \o SelectInside(t.children[2], rect)
         \o SelectInside(t.children[3], rect) \o SelectInside(t.children[4], rect)

RECURSIVE Select(_, _)
RECURSIVE selectChildren(_, _, _)

\* The loop over t.children of Select, from child i on.
selectChildren(children, rect, i) ==
    IF i > Len(children) THEN <<>>
    ELSE Select(children[i], rect) \o selectChildren(children, rect, i + 1)

\* qTree.Select; nil is <<>>.
Select(t, rect) ==
    IF ~Overlaps(t.bounds, rect) THEN <<>>
    ELSE IF t.children = <<>> THEN t.elements
    ELSE selectChildren(t.children, rect, 1)

\* -------------------------------------------------------------- subdivide
\* center := min.Add(max).Div(2)
center(t) == Div(Add(t.bounds.Min, t.bounds.Max), 2)

\* The quadrants with the north-east one reaching down to the south edge.
quadrantsTallNE(t) ==
    LET min == t.bounds.Min
        max == t.bounds.Max
        c   == center(t)
    IN  << [Min |-> min,              Max |-> c],
           [Min |-> Pt(c.X, min.Y),   Max |-> max],
           [Min |-> Pt(min.X, c.Y),   Max |-> Pt(c.X, max.Y)],
           [Min |-> c,                Max |-> max] >>

\* The four rectangles subdivide hands to newQuadTree: NW, NE, SW, SE.
quadrants(t) ==
    LET min == t.bounds.Min
        max == t.bounds.Max
        c   == center(t)
    IN  << [Min |-> min,              Max |-> c],
           [Min |-> Pt(c.X, min.Y),   Max |-> Pt(max.X, c.Y)],
           [Min |-> Pt(min.X, c.Y),   Max |-> Pt(c.X, max.Y)],
           [Min |-> c,                Max |-> max] >>

\* A child given the depth budget of its parent.
childDepthSame(t) == t.depthRemaining

\* The depth budget subdivide gives each child.
childDepth(t) == t.depthRemaining - 1

\* subdivide panics when one of its four newQuadTree calls does.
subdividePanics(t) ==
    \E i \in 1..4 : newQuadTreePanics(quadrants(t)[i], t.bucketSize, childDepth(t))

\* qTree.subdivide, when it does not panic.
subdivide(t) ==
    [i \in 1..4 |-> newQuadTree(quadrants(t)[i], t.bucketSize, childDepth(t))]

\* ----------------------------------------------------------------- insert
\* The room test without the depth limit.
hasRoomNoDepth(t) == Len(t.elements) < t.bucketSize

\* The room test with room for one element more than bucketSize.
hasRoomOneMore(t) == t.depthRemaining = 0 \/ Len(t.elements) <= t.bucketSize

\* line 369: there is room, or the depth limit is hit.
hasRoom(t) == t.depthRemaining = 0 \/ Len(t.elements) < t.bucketSize

\* line 370
appendElement(t, element) == [t EXCEPT !.elements = Append(t.elements, element)]

\* The leaves to redistribute without the element being inserted.
leavesOfOldOnly(t, element) == t.elements

\* line 376: leaves := append(t.elements, element)
leavesOf(t, element) == Append(t.elements, element)

\* The node with its elements left as they are.
clearElementsNot(t) == t

\* line 386: t.elements = nil
clearElements(t) == [t EXCEPT !.elements = <<>>]

\* Outcome of an insert: the node afterwards, the value returned, and whether
\* a panic is unwinding instead of a return.
Outcome(t, ok, panic) == [tree |-> t, ok |-> ok, panic |-> panic]

RECURSIVE insert(_, _)
RECURSIVE insertChildren(_, _, _)
RECURSIVE insertLeaves(_, _, _)

\* for _, child := range children { if child.insert(element) { break } },
\* from child i on.  ok tells whether some child took the element.
insertChildren(children, element, i) ==
    IF i > Len(children) THEN [children |-> children, ok |-> FALSE, panic |-> FALSE]
    ELSE LET r  == insert(children[i], element)
             cs == [children EXCEPT ![i] = r.tree]
         IN  IF r.panic THEN [children |-> cs, ok |-> FALSE, panic |-> TRUE]
             ELSE IF r.ok THEN [children |-> cs, ok |-> TRUE, panic |-> FALSE]
             ELSE insertChildren(cs, element, i + 1)

\* for _, leaf := range leaves { ... }, from leaf j on.
insertLeaves(children, leaves, j) ==
    IF j > Len(leaves) THEN [children |-> children, panic |-> FALSE]
    ELSE LET r == insertChildren(children, leaves[j], 1)
         IN  IF r.panic THEN [children |-> r.children, panic |-> TRUE]
             ELSE insertLeaves(r.children, leaves, j + 1)

\* qTree.insert
insert(t, element) ==
    IF ~InBounds(t, element.p) THEN Outcome(t, FALSE, FALSE)
    ELSE IF t.children # <<>> THEN
        LET r == insertChildren(t.children, element, 1)
        IN  Outcome([t EXCEPT !.children = r.children], ~r.panic, r.panic)
    ELSE IF hasRoom(t) THEN Outcome(appendElement(t, element), TRUE, FALSE)
    ELSE IF subdividePanics(t) THEN Outcome(t, FALSE, TRUE)
    ELSE LET r == insertLeaves(subdivide(t), leavesOf(t, element), 1)
             s == [t EXCEPT !.children = r.children]
         IN  IF r.panic THEN Outcome(s, FALSE, TRUE)
             ELSE Outcome(clearElements(s), TRUE, FALSE)

\* qTree.Insert
Insert(t, p, val) == insert(t, [p |-> p, val |-> val])

\* ------------------------------------------------------------------ state
VARIABLES
    state,   \* "init" before NewQuadTree, then "ready", or "panicked"
    tree,    \* the root node
    before,  \* the root node as it was when the last call was made
    log,     \* the elements of the Insert calls that returned true, in order
    call,    \* the last call: its name and arguments
    ret      \* what the last call returned

vars == <<state, tree, before, log, call, ret>>

NoPoint == Pt(0, 0)
NoRect == [Min |-> NoPoint, Max |-> NoPoint]
\* Placeholder for the tree variable while no tree exists.
NoTree == [bucketSize |-> 0, children |-> <<>>, depthRemaining |-> 0,
           elements |-> <<>>, bounds |-> NoRect]

Call(op, p, rect, bucketSize, maxDepth) ==
    [op |-> op, p |-> p, rect |-> rect, bucketSize |-> bucketSize, maxDepth |-> maxDepth]

Ret(ok, elements) == [ok |-> ok, elements |-> elements]

\* Bounds the trees of Spec are built with: one corner at (-1,-1), the other
\* anywhere on the grid.
TreeBounds == {[Min |-> Pt(-1, -1), Max |-> q] : q \in Points}

\* Rectangles handed to Select: the tree's bounds, and the four rectangles
\* from the origin to a corner of the grid as written, three of them with
\* corners in reverse order.
GridCorners == {Pt(x, y) : x \in {-1, MaxCoord}, y \in {-1, MaxCoord}}
OriginRects == {[Min |-> Pt(0, 0), Max |-> q] : q \in GridCorners}
QueryRects(t) == {Bounds(t)} \cup OriginRects

\* Points handed to InBounds: the four of Test_InBounds.
BoundaryPoints(t) ==
    {Add(Bounds(t).Min, Pt(-1, -1)), Bounds(t).Min,
     Add(Bounds(t).Max, Pt(-1, -1)), Bounds(t).Max}

\* NewQuadTree(bounds, bucketSize, maxDepth) has returned a tree.
Init ==
    /\ \E bounds \in TreeBounds, bucketSize \in 1..MaxBucket, maxDepth \in 0..MaxDepthArg :
        /\ ~newQuadTreePanics(bounds, bucketSize, maxDepth)
        /\ tree = newQuadTree(bounds, bucketSize, maxDepth)
        /\ call = Call("NewQuadTree", NoPoint, bounds, bucketSize, maxDepth)
    /\ before = NoTree
    /\ state = "ready"
    /\ log = <<>>
    /\ ret = Ret(TRUE, <<>>)

\* tree.Insert(p, val); val is an opaque tag, here the number of the entry.
\* Once the tree holds MaxInserts entries, only Inserts that return false
\* are followed further.
CallInsert ==
    /\ state = "ready"
    /\ \E p \in Points :
        \E r \in {Insert(tree, p, Len(log) + 1)} :
            /\ Len(log) < MaxInserts \/ (~r.ok /\ ~r.panic)
            /\ call' = Call("Insert", p, NoRect, 0, 0)
            /\ tree' = r.tree
            /\ before' = tree
            /\ state' = IF r.panic THEN "panicked" ELSE "ready"
            /\ ret' = Ret(r.ok, <<>>)
            /\ log' = IF r.ok THEN Append(log, [p |-> p, val |-> Len(log) + 1]) ELSE log

\* tree.Select(rect)
CallSelect ==
    /\ state = "ready"
    /\ \E rect \in QueryRects(tree) :
        /\ call' = Call("Select", NoPoint, rect, 0, 0)
        /\ ret' = Ret(TRUE, Select(tree, rect))
    /\ before' = tree
    /\ UNCHANGED <<state, tree, log>>

\* tree.InBounds(p)
CallInBounds ==
    /\ state = "ready"
    /\ \E p \in BoundaryPoints(tree) :
        /\ call' = Call("InBounds", p, NoRect, 0, 0)
        /\ ret' = Ret(InBounds(tree, p), <<>>)
    /\ before' = tree
    /\ UNCHANGED <<state, tree, log>>

Next ==
    \/ CallInsert
    \/ CallSelect
    \/ CallInBounds

Spec == Init /\ [][Next]_vars

\* ------------------------------------------------------------- longer runs
\* One tree over the whole grid, points on two lines that cross all four
\* quadrants, and one entry more than in Spec: runs in which an Insert
\* descends into a node that an earlier Insert has subdivided.
LongBounds == [Min |-> Pt(-1, -1), Max |-> Pt(MaxCoord, MaxCoord)]
\* The diagonal, and the line through (-1,0) and (0,-1).
LongPoints == {p \in Points : p.X = p.Y \/ p.X + p.Y = -1}

\* NewQuadTree(LongBounds, bucketSize, maxDepth) has returned a tree.
InitLong ==
    /\ \E bucketSize \in 1..MaxBucket, maxDepth \in 0..MaxDepthArg :
        /\ ~newQuadTreePanics(LongBounds, bucketSize, maxDepth)
        /\ tree = newQuadTree(LongBounds, bucketSize, maxDepth)
        /\ call = Call("NewQuadTree", NoPoint, LongBounds, bucketSize, maxDepth)
    /\ before = NoTree
    /\ state = "ready"
    /\ log = <<>>
    /\ ret = Ret(TRUE, <<>>)

\* tree.Insert(p, val) with p on one of the two lines.
CallInsertLong ==
    /\ state = "ready"
    /\ \E p \in LongPoints :
        \E r \in {Insert(tree, p, Len(log) + 1)} :
            /\ Len(log) < MaxInserts + 1 \/ (~r.ok /\ ~r.panic)
            /\ call' = Call("Insert", p, NoRect, 0, 0)
            /\ tree' = r.tree
            /\ before' = tree
            /\ state' = IF r.panic THEN "panicked" ELSE "ready"
            /\ ret' = Ret(r.ok, <<>>)
            /\ log' = IF r.ok THEN Append(log, [p |-> p, val |-> Len(log) + 1]) ELSE log

NextLong ==
    \/ CallInsertLong
    \/ CallSelect
    \/ CallInBounds

SpecLong == InitLong /\ [][NextLong]_vars

\* ------------------------------------------------- the constructor alone
\* No tree yet.
InitNew ==
    /\ state = "init"
    /\ tree = NoTree
    /\ before = NoTree
    /\ log = <<>>
    /\ call = Call("none", NoPoint, NoRect, 0, 0)
    /\ ret = Ret(FALSE, <<>>)

\* NewQuadTree(bounds, bucketSize, maxDepth), any arguments.
CallNewQuadTree ==
    /\ state = "init"
    /\ \E bounds \in Rects, bucketSize \in 0..MaxBucket, maxDepth \in -1..MaxDepthArg :
        /\ call' = Call("NewQuadTree", NoPoint, bounds, bucketSize, maxDepth)
        /\ IF newQuadTreePanics(bounds, bucketSize, maxDepth)
           THEN /\ state' = "panicked"
                /\ tree' = tree
                /\ ret' = Ret(FALSE, <<>>)
           ELSE /\ state' = "ready"
                /\ tree' = newQuadTree(bounds, bucketSize, maxDepth)
                /\ ret' = Ret(TRUE, <<>>)
    /\ before' = tree
    /\ UNCHANGED log

NextNew == CallNewQuadTree

SpecNew == InitNew /\ [][NextNew]_vars

\* ============================================================ properties
\* Vocabulary of the properties, written from the words of the specification
\* and not from the operators above.
Range(s) == {s[i] : i \in 1..Len(s)}

\* p lies in r, closed at the minimum corner and open at the maximum corner.
HalfOpen(p, r) ==
    /\ r.Min.X <= p.X /\ p.X < r.Max.X
    /\ r.Min.Y <= p.Y /\ p.Y < r.Max.Y

Lesser(a, b) == IF a <= b THEN a ELSE b
Greater(a, b) == IF a <= b THEN b ELSE a

\* r with its corners in order.
CanonicalForm(r) ==
    [Min |-> [X |-> Lesser(r.Min.X, r.Max.X), Y |-> Lesser(r.Min.Y, r.Max.Y)],
     Max |-> [X |-> Greater(r.Min.X, r.Max.X), Y |-> Greater(r.Min.Y, r.Max.Y)]]

IsCanonical(r) == r.Min.X <= r.Max.X /\ r.Min.Y <= r.Max.Y
IsReversed(r) == r.Min.X > r.Max.X \/ r.Min.Y > r.Max.Y

\* Number of occurrences of e in s.
Count(s, e) == Cardinality({i \in 1..Len(s) : s[i] = e})

\* s and u hold the same entries, each as many times.
SameEntries(s, u) ==
    /\ Len(s) = Len(u)
    /\ \A e \in Range(s) \cup Range(u) : Count(s, e) = Count(u, e)

RECURSIVE Nodes(_)
\* Every node of the tree under t, t included.
Nodes(t) == {t} \cup UNION {Nodes(t.children[i]) : i \in 1..Len(t.children)}

\* The last call was Insert, Select or InBounds with these arguments.
Inserted == call.op = "Insert"
\* The tree is as NewQuadTree or an Insert that returned true has just left
\* it: every tree the program builds is met once in such a state.
Fresh == state = "ready" /\ call.op \in {"NewQuadTree", "Insert"} /\ ret.ok
Selected == call.op = "Select"
FullSelected == call.op = "Select" /\ call.rect = tree.bounds

\* ---------------------------------------------------------------------- C1
\* C1: Insert(p, v) returns, with true exactly when p is inside the bounds
\* and false exactly when it is outside; it has no other outcome, and in
\* particular it never panics.
C1_InsertNeverPanics ==
    Inserted => (state = "ready" /\ ret.ok = HalfOpen(call.p, tree.bounds))

\* ---------------------------------------------------------------------- C2
\* C2: once all Insert calls have returned, Select over the full bounds
\* returns exactly one entry for each Insert that returned true, with its
\* point and value: none lost in a subdivision, none returned twice.
C2_FullSelectReturnsLog ==
    /\ Fresh => SameEntries(Select(tree, Bounds(tree)), log)
    /\ (state = "ready" /\ FullSelected) => SameEntries(ret.elements, log)

\* A full-bounds Select of a subdivided tree that holds more than bucketSize
\* entries.
C2_Witness ==
    /\ state = "ready" /\ FullSelected
    /\ tree.children # <<>>
    /\ Len(log) > tree.bucketSize
    /\ SameEntries(ret.elements, log)

\* ---------------------------------------------------------------------- C3
\* C3: an Insert of a point outside the bounds returns false and changes
\* nothing: the tree is the same node for node, and every Select returns
\* what it returned before.
C3_OutOfBoundsInsertIsNoOp ==
    (Inserted /\ ~HalfOpen(call.p, before.bounds)) =>
        /\ ret.ok = FALSE
        /\ state = "ready"
        /\ tree = before
        /\ \A r \in QueryRects(before) : Select(tree, r) = Select(before, r)

\* An out-of-bounds Insert on a subdivided tree was refused.
C3_Witness ==
    /\ state = "ready" /\ Inserted
    /\ ~HalfOpen(call.p, tree.bounds)
    /\ ret.ok = FALSE
    /\ tree.children # <<>>

\* ---------------------------------------------------------------------- C4
\* C4: Select has no false negatives: for a canonical rectangle R, every
\* stored entry whose point lies in R (closed-open) is in Select(R).
C4_SelectNoFalseNegative ==
    /\ Fresh =>
          \A r \in Rects : IsCanonical(r) =>
              \A e \in Range(log) : HalfOpen(e.p, r) => e \in Range(Select(tree, r))
    /\ (state = "ready" /\ Selected /\ IsCanonical(call.rect)) =>
          \A e \in Range(log) : HalfOpen(e.p, call.rect) => e \in Range(ret.elements)

\* A Select of part of a subdivided tree returned some entries and left
\* others out.
C4_Witness ==
    /\ state = "ready" /\ Selected
    /\ IsCanonical(call.rect)
    /\ tree.children # <<>>
    /\ \E e \in Range(log) : HalfOpen(e.p, call.rect) /\ e \in Range(ret.elements)
    /\ \E e \in Range(log) : e \notin Range(ret.elements)

\* ---------------------------------------------------------------------- C5
\* C5: Select canonicalizes its rectangle: called with corners in reverse
\* order it returns the same entries as with the corner-swapped rectangle.
C5_SelectCanonicalizes ==
    (state = "ready" /\ Selected) =>
        SameEntries(ret.elements, Select(tree, CanonicalForm(call.rect)))

\* C5 as amended: only the constructor canonicalizes.  Select uses the
\* rectangle as given, and a rectangle with min > max on an axis overlaps
\* nothing: Select returns no entries for it.
C5_ReversedSelectIsEmpty ==
    /\ Fresh => \A r \in Rects : IsReversed(r) => Select(tree, r) = <<>>
    /\ (state = "ready" /\ Selected /\ IsReversed(call.rect)) => ret.elements = <<>>

\* A Select with reversed corners returned nothing although the swapped
\* rectangle holds entries.
C5_Witness ==
    /\ state = "ready" /\ Selected
    /\ IsReversed(call.rect)
    /\ ret.elements = <<>>
    /\ Select(tree, CanonicalForm(call.rect)) # <<>>

\* ---------------------------------------------------------------------- C6
\* C6: NewQuadTree panics exactly when bucketSize < 1, or maxDepth < 0, or
\* the canonicalized bounds have zero width or zero height; otherwise it
\* returns an empty leaf whose Bounds() is the canonicalized rectangle.
C6_Constructor ==
    call.op = "NewQuadTree" =>
        LET c == CanonicalForm(call.rect)
            bad == \/ call.bucketSize < 1
                   \/ call.maxDepth < 0
                   \/ c.Max.X - c.Min.X = 0
                   \/ c.Max.Y - c.Min.Y = 0
        IN  /\ state = (IF bad THEN "panicked" ELSE "ready")
            /\ ret.ok = ~bad
            /\ bad => tree = NoTree
            /\ ~bad =>
                /\ tree.elements = <<>>
                /\ tree.children = <<>>
                /\ Bounds(tree) = c
                /\ tree.bucketSize = call.bucketSize
                /\ tree.depthRemaining = call.maxDepth

\* A tree built from corners given in reverse order on one axis only.
C6_Witness ==
    /\ call.op = "NewQuadTree" /\ state = "ready"
    /\ call.rect.Min.X > call.rect.Max.X
    /\ call.rect.Min.Y < call.rect.Max.Y
    /\ Bounds(tree) = CanonicalForm(call.rect)

\* ---------------------------------------------------------------------- C7
\* C7: InBounds(p) is true iff p is inside the bounds, closed at the minimum
\* corner and open at the maximum corner: min and max-(1,1) are inside, max
\* and min-(1,1) are not, whatever has been inserted.  The bounds are those
\* of the constructor call, which every tree of Spec was given in order.
C7_InBoundsHalfOpen ==
    LET b == Bounds(tree)
    IN  /\ b \in TreeBounds
        /\ Fresh =>
            /\ \A p \in ProbePoints : InBounds(tree, p) = HalfOpen(p, b)
            /\ InBounds(tree, b.Min)
            /\ InBounds(tree, [X |-> b.Max.X - 1, Y |-> b.Max.Y - 1])
            /\ ~InBounds(tree, b.Max)
            /\ ~InBounds(tree, [X |-> b.Min.X - 1, Y |-> b.Min.Y - 1])
        /\ (state = "ready" /\ call.op = "InBounds") => ret.ok = HalfOpen(call.p, b)

\* InBounds answered true for max-(1,1) on a tree that holds entries and has
\* subdivided.
C7_Witness ==
    /\ state = "ready" /\ call.op = "InBounds"
    /\ call.p = [X |-> tree.bounds.Max.X - 1, Y |-> tree.bounds.Max.Y - 1]
    /\ call.p # tree.bounds.Min
    /\ ret.ok = TRUE
    /\ tree.children # <<>>

\* ---------------------------------------------------------------------- C8
\* C8: a node whose depthRemaining is 0 never subdivides.  A root built with
\* maxDepth = 0 keeps every entry in its own list: every in-bounds Insert
\* returned true, also beyond bucketSize, and a full-bounds Select returns
\* them all.
C8_DepthZeroNeverSubdivides ==
    /\ Inserted => \A n \in Nodes(tree) : n.depthRemaining = 0 => n.children = <<>>
    /\ tree.depthRemaining = 0 =>
        /\ state = "ready"
        /\ tree.elements = log
        /\ Select(tree, Bounds(tree)) = log
        /\ Inserted => ret.ok = HalfOpen(call.p, tree.bounds)
        /\ FullSelected => ret.elements = log

\* A root with maxDepth = 0 holds more than bucketSize entries and a
\* full-bounds Select returned them.
C8_Witness ==
    /\ state = "ready" /\ FullSelected
    /\ tree.depthRemaining = 0
    /\ tree.children = <<>>
    /\ Len(tree.elements) > tree.bucketSize
    /\ ret.elements = log

\* ---------------------------------------------------------------------- C9
\* C9: duplicates are kept: inserting the same in-bounds point again and
\* again into a tree of bucketSize 1 succeeds every time, and a full-bounds
\* Select returns one entry per insertion, all at that point.
C9_DuplicatesAlwaysSucceed ==
    [][(/\ call'.op = "Insert"
        /\ tree.bucketSize = 1
        /\ HalfOpen(call'.p, tree.bounds)
        /\ log # <<>>
        /\ \A e \in Range(log) : e.p = call'.p) =>
           /\ state' = "ready"
           /\ ret'.ok = TRUE
           /\ Len(log') = Len(log) + 1
           /\ \A e \in Range(log') : e.p = call'.p
           /\ SameEntries(Select(tree', Bounds(tree')), log')]_vars

\* --------------------------------------------------------------------- C10
\* C10: the four children of an internal node tile its bounds: they are the
\* NW, NE, SW, SE rectangles around the truncated midpoint (min+max)/2, each
\* lies inside the parent, and every point of the parent lies in exactly one
\* of them.  Children only appear in an Insert, so the trees to look at are
\* those an Insert leaves, by a return or by a panic.
Midpoint(a, b) ==
    CHOOSE m \in -2..(MaxCoord + 1) :
        IF a + b >= 0 THEN 2 * m <= a + b /\ a + b < 2 * m + 2
                      ELSE 2 * m - 2 < a + b /\ a + b <= 2 * m

Within(inner, outer) ==
    /\ outer.Min.X <= inner.Min.X /\ inner.Max.X <= outer.Max.X
    /\ outer.Min.Y <= inner.Min.Y /\ inner.Max.Y <= outer.Max.Y
    /\ inner.Min.X < inner.Max.X /\ inner.Min.Y < inner.Max.Y

C10_ChildrenTileParent ==
    (call.op = "Insert") => \A n \in Nodes(tree) : n.children # <<>> =>
        LET b  == n.bounds
            mx == Midpoint(b.Min.X, b.Max.X)
            my == Midpoint(b.Min.Y, b.Max.Y)
        IN  /\ Len(n.children) = 4
            /\ n.children[1].bounds = [Min |-> b.Min, Max |-> [X |-> mx, Y |-> my]]
            /\ n.children[2].bounds = [Min |-> [X |-> mx, Y |-> b.Min.Y],
                                       Max |-> [X |-> b.Max.X, Y |-> my]]
            /\ n.children[3].bounds = [Min |-> [X |-> b.Min.X, Y |-> my],
                                       Max |-> [X |-> mx, Y |-> b.Max.Y]]
            /\ n.children[4].bounds = [Min |-> [X |-> mx, Y |-> my], Max |-> b.Max]
            /\ \A i \in 1..4 : Within(n.children[i].bounds, b)
            /\ \A p \in ProbePoints :
                  /\ HalfOpen(p, b) =>
                        Cardinality({i \in 1..4 : HalfOpen(p, n.children[i].bounds)}) = 1
                  /\ ~HalfOpen(p, b) =>
                        \A i \in 1..4 : ~HalfOpen(p, n.children[i].bounds)

\* A subdivided root whose children hold entries in two different quadrants.
C10_Witness ==
    /\ state = "ready"
    /\ tree.children # <<>>
    /\ Cardinality({i \in 1..4 : tree.children[i].elements # <<>>}) >= 2

\* --------------------------------------------------------------------- C11
\* C11: a node goes one way, from leaf to internal.  After an Insert has
\* returned, every node is a leaf (no children) or internal (exactly four
\* children and no entries of its own); and a node that had children when an
\* Insert or a Select was called still has them afterwards, each child at
\* the same bounds and depth, and still has no entries of its own.
IsLeaf(n) == n.children = <<>>
IsInternal(n) == Len(n.children) = 4 /\ n.elements = <<>>

RECURSIVE Keeps(_, _)
Keeps(old, new) ==
    /\ new.bounds = old.bounds
    /\ new.bucketSize = old.bucketSize
    /\ new.depthRemaining = old.depthRemaining
    /\ ~IsLeaf(old) =>
        /\ Len(new.children) = Len(old.children)
        /\ new.elements = <<>>
        /\ \A i \in 1..Len(old.children) : Keeps(old.children[i], new.children[i])

C11_LeafToInternalOneWay ==
    /\ state = "ready" => \A n \in Nodes(tree) : IsLeaf(n) \/ IsInternal(n)
    /\ call.op \in {"Insert", "Select"} => Keeps(before, tree)

\* An Insert went down into a root that was already subdivided and added an
\* entry below it.
C11_Witness ==
    /\ state = "ready" /\ Inserted /\ ret.ok
    /\ ~IsLeaf(before)
    /\ tree # before
    /\ IsInternal(tree)

\* --------------------------------------------------------------------- C12
\* C12: in every tree an Insert has returned from, a leaf with
\* depthRemaining > 0 holds at most bucketSize entries, so that a leaf
\* holding more has depthRemaining = 0; and every node carries the root's
\* bucketSize.
C12_BucketCapacity ==
    (state = "ready" /\ Inserted) => \A n \in Nodes(tree) :
        /\ n.bucketSize = tree.bucketSize
        /\ (IsLeaf(n) /\ n.depthRemaining > 0) => Len(n.elements) <= n.bucketSize
        /\ (IsLeaf(n) /\ Len(n.elements) > n.bucketSize) => n.depthRemaining = 0

\* Below a subdivided root, a leaf at the depth limit holds more than
\* bucketSize entries.
C12_Witness ==
    /\ state = "ready" /\ Inserted /\ ret.ok
    /\ ~IsLeaf(tree)
    /\ \E n \in Nodes(tree) :
        /\ IsLeaf(n)
        /\ n.depthRemaining = 0
        /\ Len(n.elements) > n.bucketSize

\* --------------------------------------------------------------------- C13
\* C13: Select(R) returns exactly the entries of the leaves whose bounds
\* overlap R, each such leaf contributing all of its entries, also those
\* whose points lie outside R; a leaf that does not overlap R contributes
\* nothing, and the result is empty when R is disjoint from the tree's
\* bounds or no overlapping leaf holds an entry.
SharePoint(a, b) ==
    /\ Greater(a.Min.X, b.Min.X) < Lesser(a.Max.X, b.Max.X)
    /\ Greater(a.Min.Y, b.Min.Y) < Lesser(a.Max.Y, b.Max.Y)

LeafEntries(t, r) ==
    UNION {Range(n.elements) : n \in {l \in Nodes(t) : IsLeaf(l) /\ SharePoint(l.bounds, r)}}

ExactlyLeafEntries(s, t, r) ==
    /\ \E entries \in {LeafEntries(t, r)} :
        /\ Range(s) = entries
        /\ Len(s) = Cardinality(entries)
    /\ ~SharePoint(t.bounds, r) => s = <<>>

Largest(S) == IF S = {} THEN 0 ELSE CHOOSE m \in S : \A k \in S : k <= m

RECURSIVE Height(_)
Height(n) ==
    IF IsLeaf(n) THEN 0
    ELSE 1 + Largest({Height(n.children[i]) : i \in 1..Len(n.children)})

\* The longest chain of nodes, each a child of the one before, that are
\* leaves in old and subdivided in new.
RECURSIVE NestedSubdivisions(_, _)
NestedSubdivisions(old, new) ==
    IF IsLeaf(new) THEN 0
    ELSE IF IsLeaf(old) THEN Height(new)
    ELSE Largest({NestedSubdivisions(old.children[i], new.children[i]) :
                      i \in 1..Len(new.children)})

RECURSIVE DepthBudgetKept(_, _)
DepthBudgetKept(n, level) ==
    /\ n.depthRemaining >= 0
    /\ n.depthRemaining = tree.depthRemaining - level
    /\ \A i \in 1..Len(n.children) : DepthBudgetKept(n.children[i], level + 1)

C14_InsertTerminates ==
    /\ Inserted =>
        /\ DepthBudgetKept(tree, 0)
        /\ Height(tree) <= tree.depthRemaining
        /\ NestedSubdivisions(before, tree) <= tree.depthRemaining
    /\ Fresh => \A p \in Points :
        \E r \in {Insert(tree, p, 0)} :
            /\ r.ok \in BOOLEAN /\ r.panic \in BOOLEAN
            /\ ~(r.ok /\ r.panic)
            /\ NestedSubdivisions(tree, r.tree) <= tree.depthRemaining

\* The same point was inserted again and the Insert returned after
\* subdividing as deep as maxDepth allows.
C14_Witness ==
    /\ state = "ready" /\ Inserted /\ ret.ok
    /\ Len(log) >= 2
    /\ \A e \in Range(log) : e.p = call.p
    /\ tree.depthRemaining >= 1
    /\ NestedSubdivisions(before, tree) = tree.depthRemaining
    /\ \E n \in Nodes(tree) : IsLeaf(n) /\ n.depthRemaining = 0 /\ n.elements = log

====
